---- MODULE Spec2Model ----
(***************************************************************************)
(* Model of the signing canister of src/src/index.ts: the three stable     *)
(* maps (salt, owner, public-key cache), the update/query methods, and the *)
(* message-level interleaving of the IC: a method runs atomically up to    *)
(* its next inter-canister call (fetch to the management canister), and    *)
(* the continuation after the reply is a second atomic step.               *)
(***************************************************************************)
EXTENDS Integers, Sequences, FiniteSets, Bags, TLC

\* ------------------------------------------------------------------ bounds
\* Invocations that may be suspended on the management canister at once.
MaxPending == 2
\* Distinct random values raw_rand may answer with (tag r has 31 + r bytes).
NumRand == 2
\* Authenticated principals besides the anonymous one.
NumPrincipals == 2
\* Saturation of the count of successful initializeSalt returns.
MaxInitOk == 2

\* --------------------------------------------------------- program constants
ANONYMOUS_PRINCIPAL_TEXT == "2vxsx-fae"
MAX_MESSAGE_BYTES == 1024 * 1024
MIN_MESSAGE_BYTES == 1
\* responseJson.length < 32 in initializeSalt
SALT_MIN_BYTES == 32
\* responseJson.public_key.length !== 32
PUBLIC_KEY_BYTES == 32
\* responseJson.signature.length !== 64
SIGNATURE_BYTES == 64

\* --------------------------------------------------------------- principals
\* A principal is its byte array.  The anonymous principal is the byte 0x04.
AnonymousPrincipal == <<4>>
AuthenticatedPrincipals == {<<p>> : p \in 1..NumPrincipals}
Principals == AuthenticatedPrincipals \cup {AnonymousPrincipal}

HexDigits == <<"0", "1", "2", "3", "4", "5", "6", "7",
               "8", "9", "a", "b", "c", "d", "e", "f">>

\* A string that is decoded again is the sequence of its characters.
\* b.toString(16): one digit below 16, two digits otherwise (b is a byte).
toString16(b) ==
    IF b < 16 THEN <<HexDigits[b + 1]>>
    ELSE <<HexDigits[(b \div 16) + 1], HexDigits[(b % 16) + 1]>>

\* No padding at all.
padStart2_none(s) == s

\* s.padStart(2, '0')
padStart2(s) == IF Len(s) < 2 THEN <<"0">> \o s ELSE s

\* .map(b => b.toString(16).padStart(2, '0')).join('')
RECURSIVE joinHex(_)
joinHex(bytes) ==
    IF bytes = <<>> THEN <<>>
    ELSE padStart2(toString16(Head(bytes))) \o joinHex(Tail(bytes))

\* '0x' + Array.from(bytes).map(b => b.toString(16).padStart(2, '0')).join('')
hexOf(byteSeq) == <<"0", "x">> \o joinHex(byteSeq)

\* The characters of a text as one string value.
RECURSIVE Text(_)
Text(chars) == IF chars = <<>> THEN "" ELSE Head(chars) \o Text(Tail(chars))

\* The decoding of the hex test: slice(2), the pairs of /.{2}/g (a last odd
\* character is left over), parseInt(pair, 16) of each.
UpperHexDigits == <<"0", "1", "2", "3", "4", "5", "6", "7",
                    "8", "9", "A", "B", "C", "D", "E", "F">>
NaN == -1
digitValue(c) ==
    IF \E i \in 1..16 : HexDigits[i] = c
    THEN (CHOOSE i \in 1..16 : HexDigits[i] = c) - 1
    ELSE IF \E i \in 1..16 : UpperHexDigits[i] = c
    THEN (CHOOSE i \in 1..16 : UpperHexDigits[i] = c) - 1
    ELSE NaN

\* parseInt(pair, 16): the digits up to the first character that is none.
parseInt16(pair) ==
    IF digitValue(pair[1]) = NaN THEN NaN
    ELSE IF digitValue(pair[2]) = NaN THEN digitValue(pair[1])
    ELSE digitValue(pair[1]) * 16 + digitValue(pair[2])

slice2(s) == SubSeq(s, 3, Len(s))

RECURSIVE parsePairs(_)
parsePairs(s) ==
    IF Len(s) < 2 THEN <<>>
    ELSE <<parseInt16(SubSeq(s, 1, 2))>> \o parsePairs(SubSeq(s, 3, Len(s)))

hexToBytes(hex) == parsePairs(slice2(hex))

\* One text for every authenticated principal.
toText_shared(p) ==
    IF p = AnonymousPrincipal THEN ANONYMOUS_PRINCIPAL_TEXT ELSE "principal"

\* Principal.toText(): an injective textual encoding of the bytes; the
\* anonymous principal's text is the literal the code compares against.
toText(p) ==
    IF p = AnonymousPrincipal THEN ANONYMOUS_PRINCIPAL_TEXT
    ELSE "principal-" \o Text(joinHex(p))

\* Principal.compareTo(other): lexicographic comparison of the byte arrays,
\* answering one of the strings 'lt', 'eq', 'gt' (never a boolean).
RECURSIVE compareBytes(_, _)
compareBytes(a, b) ==
    IF a = <<>> /\ b = <<>> THEN "eq"
    ELSE IF a = <<>> THEN "lt"
    ELSE IF b = <<>> THEN "gt"
    ELSE IF Head(a) < Head(b) THEN "lt"
    ELSE IF Head(a) > Head(b) THEN "gt"
    ELSE compareBytes(Tail(a), Tail(b))

compareTo(caller, owner) == compareBytes(caller, owner)

\* JavaScript truthiness of a string: only the empty string is falsy.
Truthy(s) == s # ""

\* A comparison against a text that is not the anonymous principal's.
IsAnonymous_wrongText(caller) == toText(caller) = "anonymous"

\* getAuthenticatedCaller(): throws for the anonymous principal.
IsAnonymous(caller) == toText(caller) = ANONYMOUS_PRINCIPAL_TEXT

\* ------------------------------------------------------------ stable maps
\* A StableBTreeMap is a finite map; get answers <<v>> or <<>> (undefined).
EmptyMap == << >>
Get(map, k) == IF k \in DOMAIN map THEN <<map[k]>> ELSE <<>>
Insert(map, k, v) == [x \in (DOMAIN map) \cup {k} |-> IF x = k THEN v ELSE map[x]]
Remove(map, k) == [x \in (DOMAIN map) \ {k} |-> map[x]]

\* A loop that stops after the first key.
RemoveAll_firstOnly(map, keys) ==
    IF keys = {} THEN map ELSE Remove(map, CHOOSE x \in keys : TRUE)

RECURSIVE RemoveAll(_, _)
\* for (const key of keys) publicKeyCache.remove(key)
RemoveAll(map, keys) ==
    IF keys = {} THEN map
    ELSE LET k == CHOOSE x \in keys : TRUE
         IN RemoveAll(Remove(map, k), keys \ {k})

\* `!owner || !caller.compareTo(owner)` of initializeSalt and
\* clearPublicKeyCache: owner is <<>> or <<principal>>.
OwnerCheckFails(caller, owner) ==
    \/ owner = <<>>
    \/ ~Truthy(compareTo(caller, owner[1]))

\* A presence test that never fires (a comparison with null, where get
\* answers undefined).
SaltAlreadySet_never(existingSalt) == FALSE

\* `if (existingSalt)` of initializeSalt.
SaltAlreadySet(existingSalt) == existingSalt # <<>>

\* ------------------------------------------------ the management canister
\* A byte array is given by its length and a seed that fixes its content:
\* byte k (from 1) of b is ByteAt(b, k), and Expand(b) is the whole sequence.
\* Two arrays of one length are equal exactly when their seeds are.
NoBytes == [length |-> 0, seed |-> 0]
ByteAt(b, k) == (b.seed * 31 + k * 7) % 256
Expand(b) == [k \in 1..b.length |-> ByteAt(b, k)]
\* An array one byte shorter (a truncated reply).
Shorter(b) == [b EXCEPT !.length = @ - 1]
\* An array one byte longer.
Longer(b) == [b EXCEPT !.length = @ + 1]

\* raw_rand: the bytes of random value r.
RandBytes(r) == [length |-> SALT_MIN_BYTES - 1 + r, seed |-> r]

\* derivationPath = [Array.from(salt), Array.from(caller.toUint8Array())]
DerivationPath(salt, caller) == <<salt, caller>>

\* Distinct (salt, principal) pairs of the model have distinct seeds.
PathSeed(path) == path[1].seed * 8 + path[2][1]

\* schnorr_public_key: the key of a derivation path (a function of the path).
SchnorrPublicKey(path) == [length |-> PUBLIC_KEY_BYTES, seed |-> PathSeed(path)]

\* sign_with_schnorr: Ed25519 is deterministic in (message, path).
SchnorrSignature(message, path) ==
    [length |-> SIGNATURE_BYTES, seed |-> PathSeed(path) * 8 + message.id]

\* Replies of raw_rand: failure status, a non-array body, or an array.
RandReplies ==
    {[ok |-> FALSE, isArray |-> FALSE, bytes |-> NoBytes],
     [ok |-> TRUE, isArray |-> FALSE, bytes |-> NoBytes]}
    \cup {[ok |-> TRUE, isArray |-> TRUE, bytes |-> RandBytes(r)] : r \in 0..NumRand}

\* Replies of schnorr_public_key for a path: failure status, a body without
\* a public_key array, a key one byte short or long, or the key of the path.
PublicKeyReplies(path) ==
    {[ok |-> FALSE, isArray |-> FALSE, bytes |-> NoBytes],
     [ok |-> TRUE, isArray |-> FALSE, bytes |-> NoBytes],
     [ok |-> TRUE, isArray |-> TRUE, bytes |-> Shorter(SchnorrPublicKey(path))],
     [ok |-> TRUE, isArray |-> TRUE, bytes |-> Longer(SchnorrPublicKey(path))],
     [ok |-> TRUE, isArray |-> TRUE, bytes |-> SchnorrPublicKey(path)]}

\* Replies of sign_with_schnorr.
SignReplies(message, path) ==
    {[ok |-> FALSE, isArray |-> FALSE, bytes |-> NoBytes],
     [ok |-> TRUE, isArray |-> FALSE, bytes |-> NoBytes],
     [ok |-> TRUE, isArray |-> TRUE, bytes |-> Shorter(SchnorrSignature(message, path))],
     [ok |-> TRUE, isArray |-> TRUE, bytes |-> Longer(SchnorrSignature(message, path))],
     [ok |-> TRUE, isArray |-> TRUE, bytes |-> SchnorrSignature(message, path)]}

\* ------------------------------------------------------------------ inputs
NoMessage == [length |-> 0, id |-> 0]
Messages ==
    {[length |-> 0, id |-> 1],
     [length |-> 1, id |-> 2],
     [length |-> MAX_MESSAGE_BYTES, id |-> 3],
     [length |-> MAX_MESSAGE_BYTES + 1, id |-> 4]}
NetworkPrefixes == {-1, 0, 255, 256}

\* ------------------------------------------------------------------- state
VARIABLES
    canisterSalt,     \* StableBTreeMap<string, Uint8Array>(0), key 'salt'
    canisterOwner,    \* StableBTreeMap<string, Principal>(1), key 'owner'
    publicKeyCache,   \* StableBTreeMap<string, Uint8Array>(2), key caller text
    pending,          \* bag of the invocations suspended on a fetch
    last,             \* the invocation that ended most recently, with its result
    initOk,           \* number of initializeSalt invocations that returned (saturating)
    firstKey,         \* for each watched caller, the first public key a result carried
    firstSignature,   \* for each watched caller and message, the first signature returned
    hexInput,         \* a byte array handed to bytesToHex on its own
    hexOutput,        \* the text bytesToHex made of hexInput, <<>> before it ran
    callsLeft         \* <<n>>: the callers make n more calls; <<>>: any number

vars == <<canisterSalt, canisterOwner, publicKeyCache, pending, last, initOk, firstKey, firstSignature,
         hexInput, hexOutput, callsLeft>>

\* The three stable maps as one value handed through a handler.
Store == [salt |-> canisterSalt, owner |-> canisterOwner, cache |-> publicKeyCache]

\* The value a method resolves with; fields a method does not return keep
\* their defaults.
NoRet ==
    [text |-> "", flag |-> FALSE, public_key |-> NoBytes, signature |-> NoBytes,
     network_prefix |-> <<>>, signature_hex |-> <<>>, public_key_hex |-> <<>>]

\* bytesToHex(bytes) of a byte array of the model.
bytesToHex(bytes) == hexOf(Expand(bytes))

\* A fresh invocation of method op by caller with its argument.
NewInv(op, caller, prefix, message) ==
    [op |-> op, caller |-> caller, prefix |-> prefix, message |-> message,
     saltAtStart |-> (Get(canisterSalt, "salt") # <<>>),
     wait |-> "", path |-> <<>>, signature |-> <<>>,
     calls |-> <<>>, reply |-> <<>>, writes |-> {}]

\* The invocation resumed with the reply to its provider call.
Received(inv, reply) == [inv EXCEPT !.reply = <<reply>>]

\* Outcomes of one atomic run of a handler.
\* throw new Error(...): error names follow the taxonomy of the design.
Throw(inv, S, e) ==
    [next |-> "done", inv |-> inv, S |-> S, kind |-> "err", error |-> e,
     ret |-> NoRet, value |-> <<>>]
\* await fetch(`icp://aaaaa-aa/<method>`)
Await(inv, S, method) ==
    [next |-> "await",
     inv |-> [inv EXCEPT !.wait = method, !.calls = Append(@, method)],
     S |-> S, kind |-> "", error |-> "", ret |-> NoRet, value |-> <<>>]
\* return of an exported method
Return(inv, S, ret) ==
    [next |-> "done", inv |-> inv, S |-> S, kind |-> "ok", error |-> "",
     ret |-> ret, value |-> <<>>]
\* return of an internal helper (getPublicKeyForCaller, this.sign)
Value(inv, S, v) ==
    [next |-> "value", inv |-> inv, S |-> S, kind |-> "", error |-> "",
     ret |-> NoRet, value |-> v]

\* The maps whose content differs between two values of the storage.
Changed(S0, S1) ==
    {slot \in {"salt", "owner", "cache"} :
        \/ slot = "salt" /\ S1.salt # S0.salt
        \/ slot = "owner" /\ S1.owner # S0.owner
        \/ slot = "cache" /\ S1.cache # S0.cache}

\* ------------------------------------------------------------ initializeSalt
\* Lines 68-87: up to the fetch of raw_rand.
initializeSalt_begin(inv, S) ==
    IF IsAnonymous(inv.caller) THEN Throw(inv, S, "Unauthenticated")
    ELSE IF OwnerCheckFails(inv.caller, Get(S.owner, "owner"))
         THEN Throw(inv, S, "NotOwner")
    ELSE IF SaltAlreadySet(Get(S.salt, "salt"))
         THEN Throw(inv, S, "AlreadyInitialized")
    ELSE Await(inv, S, "raw_rand")

\* The caller that sets the salt recorded as the owner as well.
initializeSalt_resume_takesOwnership(inv, S, reply) ==
    IF ~reply.ok THEN Throw(inv, S, "ProviderError")
    ELSE IF ~reply.isArray \/ reply.bytes.length < SALT_MIN_BYTES
         THEN Throw(inv, S, "MalformedResponse")
    ELSE Return(inv,
                [S EXCEPT !.salt = Insert(@, "salt", reply.bytes),
                          !.owner = Insert(@, "owner", inv.caller)],
                [NoRet EXCEPT !.text = "Salt initialized successfully with secure randomness"])

\* The bytes stored before their length is tested.
initializeSalt_resume_storesFirst(inv, S, reply) ==
    IF ~reply.ok THEN Throw(inv, S, "ProviderError")
    ELSE IF ~reply.isArray THEN Throw(inv, S, "MalformedResponse")
    ELSE IF reply.bytes.length < SALT_MIN_BYTES
         THEN Throw(inv, [S EXCEPT !.salt = Insert(@, "salt", reply.bytes)],
                    "MalformedResponse")
    ELSE Return(inv,
                [S EXCEPT !.salt = Insert(@, "salt", reply.bytes)],
                [NoRet EXCEPT !.text = "Salt initialized successfully with secure randomness"])

\* Lines 89-106: the continuation after the reply of raw_rand.
initializeSalt_resume(inv, S, reply) ==
    IF ~reply.ok THEN Throw(inv, S, "ProviderError")
    ELSE IF ~reply.isArray \/ reply.bytes.length < SALT_MIN_BYTES
         THEN Throw(inv, S, "MalformedResponse")
    ELSE Return(inv,
                [S EXCEPT !.salt = Insert(@, "salt", reply.bytes)],
                [NoRet EXCEPT !.text = "Salt initialized successfully with secure randomness"])

\* ------------------------------------------------------ getPublicKeyForCaller
\* The cache never consulted: every call derives the key anew.
getPublicKeyForCaller_begin_noCache(inv, S) ==
    IF IsAnonymous(inv.caller) THEN Throw(inv, S, "Unauthenticated")
    ELSE LET salt == Get(S.salt, "salt")
         IN IF salt = <<>> THEN Throw(inv, S, "SaltNotInitialized")
            ELSE Await([inv EXCEPT !.path = <<DerivationPath(salt[1], inv.caller)>>],
                       S, "schnorr_public_key")

\* Lines 111-140: up to the fetch of schnorr_public_key.
getPublicKeyForCaller_begin(inv, S) ==
    IF IsAnonymous(inv.caller) THEN Throw(inv, S, "Unauthenticated")
    ELSE LET cached == Get(S.cache, toText(inv.caller))
             salt == Get(S.salt, "salt")
         IN IF cached # <<>> THEN Value(inv, S, cached[1])
            ELSE IF salt = <<>> THEN Throw(inv, S, "SaltNotInitialized")
            ELSE Await([inv EXCEPT !.path = <<DerivationPath(salt[1], inv.caller)>>],
                       S, "schnorr_public_key")

\* The length test as a lower limit only (< in place of !==).
getPublicKeyForCaller_resume_atLeast(inv, S, reply) ==
    IF ~reply.ok THEN Throw(inv, S, "ProviderError")
    ELSE IF ~reply.isArray THEN Throw(inv, S, "MalformedResponse")
    ELSE IF reply.bytes.length < PUBLIC_KEY_BYTES THEN Throw(inv, S, "MalformedResponse")
    ELSE Value(inv,
               [S EXCEPT !.cache = Insert(@, toText(inv.caller), reply.bytes)],
               reply.bytes)

\* Lines 142-163: the continuation after the reply of schnorr_public_key.
getPublicKeyForCaller_resume(inv, S, reply) ==
    IF ~reply.ok THEN Throw(inv, S, "ProviderError")
    ELSE IF ~reply.isArray THEN Throw(inv, S, "MalformedResponse")
    ELSE IF reply.bytes.length # PUBLIC_KEY_BYTES THEN Throw(inv, S, "MalformedResponse")
    ELSE Value(inv,
               [S EXCEPT !.cache = Insert(@, toText(inv.caller), reply.bytes)],
               reply.bytes)

\* `networkPrefix < 0 || networkPrefix > 255` of getAddressData.
PrefixOutOfRange(networkPrefix) == networkPrefix < 0 \/ networkPrefix > 255

\* What each exported method does with the key getPublicKeyForCaller gave it:
\* getPublicKey (168), getAddressData (178-187), signWithPublicKey (252-255),
\* signWithHex (274-279).
afterPublicKey(inv, S, publicKey) ==
    CASE inv.op = "getPublicKey" ->
            Return(inv, S, [NoRet EXCEPT !.public_key = publicKey])
      [] inv.op = "getAddressData" ->
            IF PrefixOutOfRange(inv.prefix)
            THEN Throw(inv, S, "InvalidNetworkPrefix")
            ELSE Return(inv, S, [NoRet EXCEPT !.public_key = publicKey,
                                              !.network_prefix = <<inv.prefix>>])
      [] inv.op = "signWithPublicKey" ->
            Return(inv, S, [NoRet EXCEPT !.signature = inv.signature[1],
                                         !.public_key = publicKey])
      [] inv.op = "signWithHex" ->
            Return(inv, S, [NoRet EXCEPT !.signature = inv.signature[1],
                                         !.signature_hex = bytesToHex(inv.signature[1]),
                                         !.public_key = publicKey,
                                         !.public_key_hex = bytesToHex(publicKey)])

\* `await this.getPublicKeyForCaller()` and the rest of the calling method.
keyStep_begin(inv, S) ==
    LET o == getPublicKeyForCaller_begin(inv, S)
    IN IF o.next = "value" THEN afterPublicKey(o.inv, o.S, o.value) ELSE o

keyStep_resume(inv, S, reply) ==
    LET o == getPublicKeyForCaller_resume(inv, S, reply)
    IN IF o.next = "value" THEN afterPublicKey(o.inv, o.S, o.value) ELSE o

\* ---------------------------------------------------------------------- sign
\* The upper limit taken as exclusive (>= in place of >).
validateMessage_exclusiveMax(message) ==
    IF message.length < MIN_MESSAGE_BYTES THEN "EmptyMessage"
    ELSE IF message.length >= MAX_MESSAGE_BYTES THEN "MessageTooLarge"
    ELSE ""

\* validateMessage(message): the name of the failure, or "" when it passes
\* (a Candid-decoded argument is always a Uint8Array).
validateMessage(message) ==
    IF message.length < MIN_MESSAGE_BYTES THEN "EmptyMessage"
    ELSE IF message.length > MAX_MESSAGE_BYTES THEN "MessageTooLarge"
    ELSE ""

\* The salt lookup without its test: a missing salt counts as no bytes.
sign_begin_noSaltCheck(inv, S) ==
    IF IsAnonymous(inv.caller) THEN Throw(inv, S, "Unauthenticated")
    ELSE IF validateMessage(inv.message) # ""
         THEN Throw(inv, S, validateMessage(inv.message))
    ELSE LET salt == Get(S.salt, "salt")
             bytes == IF salt = <<>> THEN NoBytes ELSE salt[1]
         IN Await([inv EXCEPT !.path = <<DerivationPath(bytes, inv.caller)>>],
                  S, "sign_with_schnorr")

\* Lines 192-219: up to the fetch of sign_with_schnorr.
sign_begin(inv, S) ==
    IF IsAnonymous(inv.caller) THEN Throw(inv, S, "Unauthenticated")
    ELSE IF validateMessage(inv.message) # ""
         THEN Throw(inv, S, validateMessage(inv.message))
    ELSE LET salt == Get(S.salt, "salt")
         IN IF salt = <<>> THEN Throw(inv, S, "SaltNotInitialized")
            ELSE Await([inv EXCEPT !.path = <<DerivationPath(salt[1], inv.caller)>>],
                       S, "sign_with_schnorr")

\* The signature kept in the caller's cache entry.
sign_resume_caches(inv, S, reply) ==
    IF ~reply.ok THEN Throw(inv, S, "ProviderError")
    ELSE IF ~reply.isArray THEN Throw(inv, S, "MalformedResponse")
    ELSE IF reply.bytes.length # SIGNATURE_BYTES THEN Throw(inv, S, "MalformedResponse")
    ELSE Value(inv,
               [S EXCEPT !.cache = Insert(@, toText(inv.caller), reply.bytes)],
               reply.bytes)

\* A failure status answered by asking the provider once more.
sign_resume_retry(inv, S, reply) ==
    IF ~reply.ok /\ Len(inv.calls) < 3 THEN Await(inv, S, "sign_with_schnorr")
    ELSE IF ~reply.ok THEN Throw(inv, S, "ProviderError")
    ELSE IF ~reply.isArray THEN Throw(inv, S, "MalformedResponse")
    ELSE IF reply.bytes.length # SIGNATURE_BYTES THEN Throw(inv, S, "MalformedResponse")
    ELSE Value(inv, S, reply.bytes)

\* Lines 221-237: the continuation after the reply of sign_with_schnorr.
sign_resume(inv, S, reply) ==
    IF ~reply.ok THEN Throw(inv, S, "ProviderError")
    ELSE IF ~reply.isArray THEN Throw(inv, S, "MalformedResponse")
    ELSE IF reply.bytes.length # SIGNATURE_BYTES THEN Throw(inv, S, "MalformedResponse")
    ELSE Value(inv, S, reply.bytes)

\* What each exported method does with the signature: sign returns it (237),
\* signWithPublicKey (249) and signWithHex (272) go on to the public key.
afterSign(inv, S, signature) ==
    IF inv.op = "sign"
    THEN Return(inv, S, [NoRet EXCEPT !.signature = signature])
    ELSE keyStep_begin([inv EXCEPT !.signature = <<signature>>], S)

\* A failure of the signing step swallowed: the method goes on to the key.
signStep_resume_swallow(inv, S, reply) ==
    LET o == sign_resume(inv, S, reply)
    IN IF o.next = "value" THEN afterSign(o.inv, o.S, o.value) ELSE keyStep_begin(inv, S)

\* `await this.sign(message)` resumed, and the rest of the calling method.
signStep_resume(inv, S, reply) ==
    LET o == sign_resume(inv, S, reply)
    IN IF o.next = "value" THEN afterSign(o.inv, o.S, o.value) ELSE o

\* ------------------------------------------------- isInitialized, clear cache
\* The truthiness of the map object in place of the stored value.
isInitialized_mapTruthy(inv, S) == Return(inv, S, [NoRet EXCEPT !.flag = TRUE])

\* Lines 283-286.
isInitialized(inv, S) ==
    Return(inv, S, [NoRet EXCEPT !.flag = (Get(S.salt, "salt") # <<>>)])

\* Lines 289-305.
clearPublicKeyCache(inv, S) ==
    IF IsAnonymous(inv.caller) THEN Throw(inv, S, "Unauthenticated")
    ELSE IF OwnerCheckFails(inv.caller, Get(S.owner, "owner"))
         THEN Return(inv, S, [NoRet EXCEPT !.flag = FALSE])
    ELSE LET keys == DOMAIN S.cache
         IN Return(inv,
                   [S EXCEPT !.cache = RemoveAll(@, keys)],
                   [NoRet EXCEPT !.flag = TRUE])

\* ------------------------------------------------------------- transitions
\* The principal that installs the canister.
Deployer == <<NumPrincipals>>

\* init(): the deployer becomes the owner.
init(deployer) == Insert(EmptyMap, "owner", deployer)

NoLast ==
    [op |-> "none", caller |-> AnonymousPrincipal, prefix |-> 0, message |-> NoMessage,
     saltAtStart |-> FALSE, wait |-> "", path |-> <<>>, signature |-> <<>>,
     calls |-> <<>>, reply |-> <<>>, writes |-> {}, kind |-> "", error |-> "",
     ret |-> NoRet]

Init ==
    /\ canisterSalt = EmptyMap
    /\ canisterOwner = init(Deployer)
    /\ publicKeyCache = EmptyMap
    /\ pending = EmptyBag
    /\ last = NoLast
    /\ initOk = 0
    /\ firstKey = EmptyMap
    /\ firstSignature = EmptyMap
    /\ hexInput = <<>>
    /\ hexOutput = <<>>
    /\ callsLeft = <<>>

\* The invocation of outcome o with the maps this execution changed added to
\* its record of writes.
Logged(o) == [o.inv EXCEPT !.writes = @ \cup Changed(Store, o.S)]

\* The record of an ended invocation.
Ended(o) ==
    [op |-> o.inv.op, caller |-> o.inv.caller, prefix |-> o.inv.prefix,
     message |-> o.inv.message, saltAtStart |-> o.inv.saltAtStart,
     wait |-> "", path |-> o.inv.path, signature |-> o.inv.signature,
     calls |-> o.inv.calls, reply |-> o.inv.reply, writes |-> Logged(o).writes,
     kind |-> o.kind, error |-> o.error, ret |-> o.ret]

\* The outcome of the first execution of an invocation, which has had no
\* reply yet.
IsNewCall(o) == o.inv.reply = <<>>

\* One atomic message execution with outcome o; rest is the bag of the other
\* suspended invocations.  It runs once the previous result has been observed
\* (see Observe), and a call that suspends needs a free place among the
\* MaxPending suspended invocations.
Commit(o, rest) ==
    /\ last = NoLast
    /\ IsNewCall(o) => callsLeft # <<0>>
    /\ callsLeft' = IF IsNewCall(o) /\ callsLeft # <<>> THEN <<callsLeft[1] - 1>>
                    ELSE callsLeft
    /\ o.next \in {"done", "await"}
    /\ o.next = "await" => BagCardinality(rest) < MaxPending
    /\ canisterSalt' = o.S.salt
    /\ canisterOwner' = o.S.owner
    /\ publicKeyCache' = o.S.cache
    /\ pending' = IF o.next = "await" THEN rest (+) SetToBag({Logged(o)}) ELSE rest
    /\ last' = IF o.next = "done" THEN Ended(o) ELSE last
    /\ initOk' = IF o.next = "done" /\ o.kind = "ok" /\ o.inv.op = "initializeSalt"
                 THEN (IF initOk < MaxInitOk THEN initOk + 1 ELSE initOk)
                 ELSE initOk
    /\ firstKey' = IF /\ o.next = "done" /\ o.kind = "ok"
                       /\ o.ret.public_key # NoBytes
                       /\ o.inv.caller \in DOMAIN firstKey
                       /\ firstKey[o.inv.caller] = <<>>
                    THEN [firstKey EXCEPT ![o.inv.caller] = <<o.ret.public_key>>]
                    ELSE firstKey
    /\ firstSignature' =
          IF /\ o.next = "done" /\ o.kind = "ok"
             /\ o.ret.signature # NoBytes
             /\ <<o.inv.caller, o.inv.message>> \in DOMAIN firstSignature
             /\ firstSignature[<<o.inv.caller, o.inv.message>>] = <<>>
          THEN [firstSignature EXCEPT ![<<o.inv.caller, o.inv.message>>] = <<o.ret.signature>>]
          ELSE firstSignature
    /\ UNCHANGED <<hexInput, hexOutput>>

\* An ingress call of each method, by a caller and with an argument of the
\* given sets.
Call_initializeSalt(callers) ==
    \E c \in callers :
        Commit(initializeSalt_begin(NewInv("initializeSalt", c, 0, NoMessage), Store), pending)

Call_getPublicKey(callers) ==
    \E c \in callers :
        Commit(keyStep_begin(NewInv("getPublicKey", c, 0, NoMessage), Store), pending)

Call_getAddressData(callers, prefixes) ==
    \E c \in callers, networkPrefix \in prefixes :
        Commit(keyStep_begin(NewInv("getAddressData", c, networkPrefix, NoMessage), Store), pending)

Call_sign(callers, messages) ==
    \E c \in callers, message \in messages :
        Commit(sign_begin(NewInv("sign", c, 0, message), Store), pending)

Call_signWithPublicKey(callers, messages) ==
    \E c \in callers, message \in messages :
        Commit(sign_begin(NewInv("signWithPublicKey", c, 0, message), Store), pending)

Call_signWithHex(callers, messages) ==
    \E c \in callers, message \in messages :
        Commit(sign_begin(NewInv("signWithHex", c, 0, message), Store), pending)

Call_isInitialized(callers) ==
    \E c \in callers :
        Commit(isInitialized(NewInv("isInitialized", c, 0, NoMessage), Store), pending)

Call_clearPublicKeyCache(callers) ==
    \E c \in callers :
        Commit(clearPublicKeyCache(NewInv("clearPublicKeyCache", c, 0, NoMessage), Store), pending)

\* The management canister answers a suspended invocation.
Reply_raw_rand ==
    \E inv \in BagToSet(pending) :
        /\ inv.wait = "raw_rand"
        /\ \E reply \in RandReplies :
              Commit(initializeSalt_resume(Received(inv, reply), Store, reply),
                     pending (-) SetToBag({inv}))

Reply_schnorr_public_key ==
    \E inv \in BagToSet(pending) :
        /\ inv.wait = "schnorr_public_key"
        /\ \E reply \in PublicKeyReplies(inv.path[1]) :
              Commit(keyStep_resume(Received(inv, reply), Store, reply),
                     pending (-) SetToBag({inv}))

Reply_sign_with_schnorr ==
    \E inv \in BagToSet(pending) :
        /\ inv.wait = "sign_with_schnorr"
        /\ \E reply \in SignReplies(inv.message, inv.path[1]) :
              Commit(signStep_resume(Received(inv, reply), Store, reply),
                     pending (-) SetToBag({inv}))

\* The result of the invocation that just ended has been looked at.  Handlers
\* run only between observations: Observe changes nothing but `last`, so this
\* removes no behaviour of the maps or of the suspended invocations.
Observe ==
    /\ last # NoLast
    /\ last' = NoLast
    /\ UNCHANGED <<canisterSalt, canisterOwner, publicKeyCache, pending, initOk, firstKey, firstSignature,
         hexInput, hexOutput, callsLeft>>

Next ==
    \/ Call_initializeSalt(Principals)
    \/ Call_getPublicKey(Principals)
    \/ Call_getAddressData(Principals, NetworkPrefixes)
    \/ Call_sign(Principals, Messages)
    \/ Call_signWithPublicKey(Principals, Messages)
    \/ Call_signWithHex(Principals, Messages)
    \/ Call_isInitialized(Principals)
    \/ Call_clearPublicKeyCache(Principals)
    \/ Reply_raw_rand
    \/ Reply_schnorr_public_key
    \/ Reply_sign_with_schnorr
    \/ Observe

Spec == Init /\ [][Next]_vars

\* The same canister with the first key handed to each authenticated caller
\* recorded in firstKey, driven by the calls that hand out keys or change
\* what they are derived from.
InitKeys ==
    /\ canisterSalt = EmptyMap
    /\ canisterOwner = init(Deployer)
    /\ publicKeyCache = EmptyMap
    /\ pending = EmptyBag
    /\ last = NoLast
    /\ initOk = 0
    /\ firstKey = [p \in AuthenticatedPrincipals |-> <<>>]
    /\ firstSignature = EmptyMap
    /\ hexInput = <<>>
    /\ hexOutput = <<>>
    /\ callsLeft = <<>>

KeyMessages == {m \in Messages : m.length = 1}
KeyPrefixes == {0}

NextKeys ==
    \/ Call_initializeSalt(AuthenticatedPrincipals)
    \/ Call_getPublicKey(AuthenticatedPrincipals)
    \/ Call_getAddressData(AuthenticatedPrincipals, KeyPrefixes)
    \/ Call_signWithPublicKey(AuthenticatedPrincipals, KeyMessages)
    \/ Call_signWithHex(AuthenticatedPrincipals, KeyMessages)
    \/ Call_clearPublicKeyCache(AuthenticatedPrincipals)
    \/ Reply_raw_rand
    \/ Reply_schnorr_public_key
    \/ Reply_sign_with_schnorr
    \/ Observe

SpecKeys == InitKeys /\ [][NextKeys]_vars

\* The canister with the first signature each caller received for each message
\* recorded in firstSignature, driven by the signing calls and by the calls
\* that change the salt, made by the deployer with messages that pass
\* validateMessage.
ValidMessages ==
    {m \in Messages : MIN_MESSAGE_BYTES <= m.length /\ m.length <= MAX_MESSAGE_BYTES}

InitSignatures ==
    /\ canisterSalt = EmptyMap
    /\ canisterOwner = init(Deployer)
    /\ publicKeyCache = EmptyMap
    /\ pending = EmptyBag
    /\ last = NoLast
    /\ initOk = 0
    /\ firstKey = EmptyMap
    /\ firstSignature = [k \in {Deployer} \X ValidMessages |-> <<>>]
    /\ hexInput = <<>>
    /\ hexOutput = <<>>
    /\ callsLeft = <<>>

NextSignatures ==
    \/ Call_initializeSalt({Deployer})
    \/ Call_sign({Deployer}, ValidMessages)
    \/ Call_signWithPublicKey({Deployer}, ValidMessages)
    \/ Call_signWithHex({Deployer}, ValidMessages)
    \/ Reply_raw_rand
    \/ Reply_schnorr_public_key
    \/ Reply_sign_with_schnorr
    \/ Observe

SpecSignatures == InitSignatures /\ [][NextSignatures]_vars

\* bytesToHex on its own: a byte array of at most MaxHexLen bytes is drawn,
\* and the function is applied to it; next to it the deployer sets the salt
\* and calls signWithHex, the method that returns hex texts.
MaxHexLen == 2
SampleBytes == {0, 9, 10, 15, 16, 159, 160, 255}

RECURSIVE ByteArrays(_)
ByteArrays(n) ==
    IF n = 0 THEN {<<>>}
    ELSE ByteArrays(n - 1) \cup
         {Append(b, x) : b \in {c \in ByteArrays(n - 1) : Len(c) = n - 1}, x \in SampleBytes}

InitHex ==
    /\ canisterSalt = EmptyMap
    /\ canisterOwner = init(Deployer)
    /\ publicKeyCache = EmptyMap
    /\ pending = EmptyBag
    /\ last = NoLast
    /\ initOk = 0
    /\ firstKey = EmptyMap
    /\ firstSignature = EmptyMap
    /\ hexInput \in ByteArrays(MaxHexLen)
    /\ hexOutput = <<>>
    /\ callsLeft = <<>>

Apply_bytesToHex ==
    /\ hexOutput = <<>>
    /\ hexOutput' = hexOf(hexInput)
    /\ UNCHANGED <<canisterSalt, canisterOwner, publicKeyCache, pending, last, initOk,
                   firstKey, firstSignature, hexInput, callsLeft>>

NextHex ==
    \/ Apply_bytesToHex
    \/ Call_initializeSalt({Deployer})
    \/ Call_signWithHex({Deployer}, KeyMessages)
    \/ Reply_raw_rand
    \/ Reply_schnorr_public_key
    \/ Reply_sign_with_schnorr
    \/ Observe

SpecHex == InitHex /\ [][NextHex]_vars

\* The canister with callers that make MaxCalls calls in all and a provider
\* that answers every request sooner or later: the deployer sets the salt,
\* asks for its key and signs, anyone asks isInitialized.
MaxCalls == 4

InitLive ==
    /\ canisterSalt = EmptyMap
    /\ canisterOwner = init(Deployer)
    /\ publicKeyCache = EmptyMap
    /\ pending = EmptyBag
    /\ last = NoLast
    /\ initOk = 0
    /\ firstKey = EmptyMap
    /\ firstSignature = EmptyMap
    /\ hexInput = <<>>
    /\ hexOutput = <<>>
    /\ callsLeft = <<MaxCalls>>

NextLive ==
    \/ Call_initializeSalt({Deployer})
    \/ Call_getPublicKey({Deployer})
    \/ Call_signWithPublicKey({Deployer}, KeyMessages)
    \/ Call_isInitialized({AnonymousPrincipal})
    \/ Reply_raw_rand
    \/ Reply_schnorr_public_key
    \/ Reply_sign_with_schnorr
    \/ Observe

SpecLive ==
    /\ InitLive /\ [][NextLive]_vars
    /\ WF_vars(Reply_raw_rand)
    /\ WF_vars(Reply_schnorr_public_key)
    /\ WF_vars(Reply_sign_with_schnorr)
    /\ WF_vars(Observe)

\* ------------------------------------------------------------------ claims
Owner == canisterOwner["owner"]
SaltPresent == Get(canisterSalt, "salt") # <<>>
Suspended == BagToSet(pending)
AuthenticatedOps ==
    {"initializeSalt", "getPublicKey", "getAddressData", "sign",
     "signWithPublicKey", "signWithHex", "clearPublicKeyCache"}
NonOwner(p) == p # AnonymousPrincipal /\ p # Owner

\* C1: once the salt slot holds a value, no step changes or removes it (only
\* the first writer's value survives).
C1_SaltNeverChanges ==
    [][SaltPresent => canisterSalt' = canisterSalt]_vars

\* C2: at most one initializeSalt invocation returns success.
C2_AtMostOneInitSuccess == initOk <= 1

\* C3: an initializeSalt by an authenticated identity that is not the Owner
\* fails NotOwner, requests no randomness and writes nothing; so no such
\* invocation is ever suspended on raw_rand.
C3_NonOwnerInitFails ==
    /\ \A inv \in Suspended : inv.op = "initializeSalt" => inv.caller = Owner
    /\ (last.op = "initializeSalt" /\ NonOwner(last.caller)) =>
          /\ last.kind = "err" /\ last.error = "NotOwner"
          /\ last.calls = <<>>
          /\ last.writes = {}

\* C4: clearPublicKeyCache by an authenticated non-owner returns false and
\* leaves cache, salt and owner unchanged.
C4_NonOwnerClearIsNoop ==
    (last.op = "clearPublicKeyCache" /\ NonOwner(last.caller)) =>
        /\ last.kind = "ok" /\ last.ret.flag = FALSE
        /\ last.writes = {}

\* C5: every cache entry is the key the provider gives for the path built
\* from the salt now stored and the entry's identity.
C5_CacheCoherent ==
    \A p \in AuthenticatedPrincipals :
        toText(p) \in DOMAIN publicKeyCache =>
            /\ SaltPresent
            /\ publicKeyCache[toText(p)] =
                   SchnorrPublicKey(DerivationPath(canisterSalt["salt"], p))

\* C6: every successful key-returning operation hands a caller the same
\* 32-byte key as the first one that caller ever received.
C6_SameKeyForLife ==
    (/\ last.kind = "ok"
     /\ last.op \in {"getPublicKey", "getAddressData", "signWithPublicKey", "signWithHex"}
     /\ last.caller \in DOMAIN firstKey) =>
        /\ last.ret.public_key.length = 32
        /\ firstKey[last.caller] = <<last.ret.public_key>>

\* C7: an authenticated operation invoked by the anonymous identity fails
\* Unauthenticated, calls the provider not at all (so it is never suspended)
\* and changes neither salt, owner nor cache.
C7_AnonymousRejected ==
    /\ \A inv \in Suspended : inv.caller # AnonymousPrincipal
    /\ (last.op \in AuthenticatedOps /\ last.caller = AnonymousPrincipal) =>
          /\ last.kind = "err" /\ last.error = "Unauthenticated"
          /\ last.calls = <<>>
          /\ last.writes = {}

C7_Witness ==
    /\ last.op = "signWithHex" /\ last.caller = AnonymousPrincipal
    /\ last.message.length = 1
    /\ last.error = "Unauthenticated"
    /\ SaltPresent
    /\ DOMAIN publicKeyCache # {}

C9_NoWriteBeforeFailure == last.kind = "err" => last.writes = {}

\* C10: getAddressData by an authenticated caller fails InvalidNetworkPrefix
\* for a prefix outside [0,255] in every state, and for a prefix inside it a
\* result carries that prefix and the caller's public key.
C10_PrefixValidated ==
    /\ \A inv \in Suspended :
          inv.op = "getAddressData" => (0 <= inv.prefix /\ inv.prefix <= 255)
    /\ (last.op = "getAddressData" /\ last.caller # AnonymousPrincipal) =>
          IF last.prefix < 0 \/ last.prefix > 255
          THEN last.kind = "err" /\ last.error = "InvalidNetworkPrefix"
          ELSE last.kind = "ok" =>
                  /\ last.ret.network_prefix = <<last.prefix>>
                  /\ last.ret.public_key = publicKeyCache[toText(last.caller)]

SignOps == {"sign", "signWithPublicKey", "signWithHex"}

\* C11: a signing call by an authenticated caller fails EmptyMessage for a
\* message of length 0 and MessageTooLarge above 1,048,576 bytes, whether or
\* not the salt is set and with no provider call (it is never suspended); a
\* message of 1 or of 1,048,576 bytes is not rejected by the validation.
C11_MessageBounds ==
    /\ \A inv \in Suspended :
          inv.op \in SignOps => (1 <= inv.message.length /\ inv.message.length <= 1048576)
    /\ (last.op \in SignOps /\ last.caller # AnonymousPrincipal) =>
          /\ last.message.length = 0 =>
                last.kind = "err" /\ last.error = "EmptyMessage" /\ last.calls = <<>>
          /\ last.message.length > 1048576 =>
                last.kind = "err" /\ last.error = "MessageTooLarge" /\ last.calls = <<>>
          /\ last.message.length \in {1, 1048576} =>
                /\ last.error \notin {"EmptyMessage", "MessageTooLarge"}
                /\ last.saltAtStart => last.calls # <<>>

C11_Witness ==
    /\ last.op = "sign" /\ last.caller # AnonymousPrincipal
    /\ last.message.length = 1048576
    /\ last.kind = "ok"

\* C12: isInitialized answers false as long as no initializeSalt has returned
\* successfully and true from then on (the salt, once present, stays present);
\* it never fails, whoever calls it, and touches nothing.
C12_IsInitializedTracksSalt ==
    /\ SaltPresent <=> initOk >= 1
    /\ last.op = "isInitialized" =>
          /\ last.kind = "ok"
          /\ last.ret.flag = (initOk >= 1)
          /\ last.calls = <<>>
          /\ last.writes = {}

C12_Witness ==
    /\ last.op = "isInitialized" /\ last.caller = AnonymousPrincipal
    /\ last.ret.flag = TRUE

\* C13: a successful signing call returns the signature the same caller first
\* received for the same message, whichever of sign, signWithPublicKey and
\* signWithHex made it and whenever it was made.
C13_SameSignature ==
    (/\ last.op \in SignOps /\ last.kind = "ok"
     /\ <<last.caller, last.message>> \in DOMAIN firstSignature) =>
        firstSignature[<<last.caller, last.message>>] = <<last.ret.signature>>

ComposedOps == {"signWithPublicKey", "signWithHex"}
SignStepErrors ==
    {"Unauthenticated", "EmptyMessage", "MessageTooLarge", "SaltNotInitialized"}
ProviderErrors == {"ProviderError", "MalformedResponse"}

\* C15: an invocation of signWithPublicKey or signWithHex calls the provider
\* at most twice, sign_with_schnorr first and schnorr_public_key after it,
\* and the key step starts only once the signing step has produced a
\* signature; when the signing step fails the invocation ends with that
\* failure, having made no public-key call and written nothing.
C15_TwoStepsFirstFailure ==
    /\ \A inv \in Suspended :
          inv.op \in ComposedOps =>
             \/ inv.calls = <<"sign_with_schnorr">> /\ inv.wait = "sign_with_schnorr"
                   /\ inv.signature = <<>> /\ inv.writes = {}
             \/ inv.calls = <<"sign_with_schnorr", "schnorr_public_key">>
                   /\ inv.wait = "schnorr_public_key" /\ inv.signature # <<>>
    /\ last.op \in ComposedOps =>
          /\ last.calls \in {<<>>, <<"sign_with_schnorr">>,
                             <<"sign_with_schnorr", "schnorr_public_key">>}
          /\ last.kind = "ok" => last.signature = <<last.ret.signature>>
          /\ (last.kind = "err" /\ last.signature = <<>>) =>
                /\ last.writes = {}
                /\ \/ last.calls = <<>> /\ last.error \in SignStepErrors
                   \/ last.calls = <<"sign_with_schnorr">> /\ last.error \in ProviderErrors
          /\ (last.kind = "err" /\ last.signature # <<>>) =>
                /\ last.calls = <<"sign_with_schnorr", "schnorr_public_key">>
                /\ last.error \in ProviderErrors

C15_Witness ==
    /\ last.op = "signWithHex" /\ last.kind = "err" /\ last.error = "ProviderError"
    /\ last.calls = <<"sign_with_schnorr">>
    /\ Get(publicKeyCache, toText(last.caller)) = <<>>

LowerHexChars == {HexDigits[i] : i \in 1..16}

\* hex is '0x' and two lowercase hex characters for each byte of bytes, in
\* order and with nothing between them, and decodes to bytes.
IsHexOf(hex, bytes) ==
    /\ Len(hex) = 2 + 2 * Len(bytes)
    /\ hex[1] = "0" /\ hex[2] = "x"
    /\ \A i \in 3..Len(hex) : hex[i] \in LowerHexChars
    /\ \A k \in 1..Len(bytes) : parseInt16(SubSeq(hex, 2 * k + 1, 2 * k + 2)) = bytes[k]
    /\ hexToBytes(hex) = bytes

\* C16: the text bytesToHex makes of a byte array is '0x' followed by exactly
\* two lowercase hex characters for each byte, and decoding the characters
\* after '0x' in pairs gives the byte array back; so the signature_hex and
\* public_key_hex of a signWithHex result decode to its signature and
\* public_key.
C16_HexRoundTrip ==
    /\ hexOutput # <<>> => IsHexOf(hexOutput, hexInput)
    /\ (last.op = "signWithHex" /\ last.kind = "ok") =>
          /\ IsHexOf(last.ret.signature_hex, Expand(last.ret.signature))
          /\ IsHexOf(last.ret.public_key_hex, Expand(last.ret.public_key))

C16_Witness ==
    /\ Len(hexInput) = MaxHexLen
    /\ hexInput[1] < 16 /\ hexInput[MaxHexLen] >= 160
    /\ hexOutput # <<>>
    /\ last.op = "signWithHex" /\ last.kind = "ok"

\* C17: the owner slot holds what system initialization stored, in every
\* state and whatever calls were made, and no invocation, ended or
\* suspended, has written it.
C17_OwnerFixed ==
    /\ canisterOwner = init(Deployer)
    /\ "owner" \notin last.writes
    /\ \A inv \in Suspended : "owner" \notin inv.writes

C17_Witness ==
    /\ last.op = "initializeSalt" /\ last.kind = "ok"
    /\ last.caller # Deployer
    /\ publicKeyCache # EmptyMap

KeyOps == {"getPublicKey", "getAddressData", "signWithPublicKey", "signWithHex"}

\* The provider method whose reply ended the last invocation, "" if it ended
\* without one.
LastReplyTo == IF last.reply = <<>> THEN "" ELSE last.calls[Len(last.calls)]
IsByteArrayOf(reply, n) == reply.ok /\ reply.isArray /\ reply.bytes.length = n

\* C18: a public-key reply is cached and returned only when it is a byte
\* array of exactly 32 bytes, and a signing reply is returned only when it is
\* one of exactly 64 bytes; a reply with a failure status ends the invocation
\* with ProviderError and one of another shape with MalformedResponse,
\* without a cache write; and every cache entry is 32 bytes long.
C18_ReplyShapes ==
    /\ \A t \in DOMAIN publicKeyCache : publicKeyCache[t].length = 32
    /\ (last.op \in KeyOps /\ last.kind = "ok") => last.ret.public_key.length = 32
    /\ (last.op \in SignOps /\ last.kind = "ok") => last.ret.signature.length = 64
    /\ LastReplyTo = "schnorr_public_key" =>
          LET reply == last.reply[1]
          IN /\ ~reply.ok =>
                   last.kind = "err" /\ last.error = "ProviderError"
                      /\ "cache" \notin last.writes
             /\ (reply.ok /\ ~IsByteArrayOf(reply, 32)) =>
                   last.kind = "err" /\ last.error = "MalformedResponse"
                      /\ "cache" \notin last.writes
             /\ IsByteArrayOf(reply, 32) =>
                   /\ Get(publicKeyCache, toText(last.caller)) = <<reply.bytes>>
                   /\ last.kind = "ok" => last.ret.public_key = reply.bytes
                   /\ last.kind = "err" => last.error = "InvalidNetworkPrefix"
    /\ LastReplyTo = "sign_with_schnorr" =>
          LET reply == last.reply[1]
          IN /\ ~reply.ok => last.kind = "err" /\ last.error = "ProviderError"
             /\ (reply.ok /\ ~IsByteArrayOf(reply, 64)) =>
                   last.kind = "err" /\ last.error = "MalformedResponse"
             /\ IsByteArrayOf(reply, 64) =>
                   last.kind = "ok" /\ last.ret.signature = reply.bytes
             /\ last.writes = {}

C18_Witness ==
    /\ last.op = "getPublicKey" /\ LastReplyTo = "schnorr_public_key"
    /\ last.reply[1].ok /\ last.reply[1].isArray /\ last.reply[1].bytes.length = 33
    /\ last.error = "MalformedResponse"
    /\ publicKeyCache = EmptyMap

\* C19: an initializeSalt whose randomness reply has a failure status ends
\* with ProviderError, and one whose reply is no array or has fewer than 32
\* bytes ends with MalformedResponse; a failed initializeSalt writes no salt,
\* so a salt that was absent stays absent and an authenticated caller that
\* finds it absent is turned away only by the provider's reply; a successful
\* one leaves the reply's bytes, at least 32, as the stored salt.
C19_SaltFromReplyOnly ==
    /\ SaltPresent => canisterSalt["salt"].length >= 32
    /\ last.op = "initializeSalt" =>
          /\ last.kind = "err" =>
                /\ last.writes = {}
                /\ initOk = 0 => ~SaltPresent
          /\ (last.kind = "err" /\ last.caller # AnonymousPrincipal /\ ~last.saltAtStart) =>
                LastReplyTo = "raw_rand"
          /\ LastReplyTo = "raw_rand" =>
                LET reply == last.reply[1]
                    enough == reply.isArray /\ reply.bytes.length >= 32
                IN /\ ~reply.ok => last.kind = "err" /\ last.error = "ProviderError"
                   /\ (reply.ok /\ ~enough) =>
                         last.kind = "err" /\ last.error = "MalformedResponse"
                   /\ (reply.ok /\ enough) =>
                         /\ last.kind = "ok"
                         /\ canisterSalt = Insert(EmptyMap, "salt", reply.bytes)

C19_Witness ==
    /\ last.op = "initializeSalt" /\ last.caller = Owner
    /\ last.error = "MalformedResponse"
    /\ last.reply[1].isArray /\ last.reply[1].bytes.length = 31
    /\ ~SaltPresent
    /\ \E inv \in Suspended : inv.op = "initializeSalt" /\ inv.caller = Owner

\* A step in which identity c, holding a cache entry, reaches the key step:
\* no new request for c's key goes out, the maps stay as they are, and the
\* key the step hands back is the entry.
HitStep(c) ==
    LET entry == publicKeyCache[toText(c)]
        direct == /\ last'.op \in {"getPublicKey", "getAddressData"}
                  /\ last'.calls = <<>>
        afterSigning == /\ last'.op \in ComposedOps
                        /\ LastReplyTo' = "sign_with_schnorr"
                        /\ IsByteArrayOf(last'.reply[1], 64)
    IN /\ \A inv \in BagToSet(pending') :
             (inv.caller = c /\ inv.wait = "schnorr_public_key") =>
                CopiesIn(inv, pending') <= CopiesIn(inv, pending)
       /\ (last' # NoLast /\ last'.caller = c /\ (direct \/ afterSigning)) =>
             /\ \/ last'.kind = "ok" /\ last'.ret.public_key = entry
                \/ /\ last'.op = "getAddressData" /\ PrefixOutOfRange(last'.prefix)
                   /\ last'.kind = "err" /\ last'.error = "InvalidNetworkPrefix"
             /\ last'.writes = {}
             /\ Store' = Store

\* C20: when an identity that has a cache entry calls getPublicKey, or reaches
\* the key step of getAddressData, signWithPublicKey or signWithHex, the step
\* returns that entry, sends no request to the provider and writes nothing.
C20_CacheHit ==
    [][\A c \in AuthenticatedPrincipals :
          (last = NoLast /\ toText(c) \in DOMAIN publicKeyCache) => HitStep(c)]_vars

C20_Witness ==
    /\ last.op = "signWithPublicKey" /\ last.kind = "ok"
    /\ last.calls = <<"sign_with_schnorr">>
    /\ last.ret.public_key = publicKeyCache[toText(last.caller)]
    /\ last.writes = {}

\* C21: while the salt is absent the cache is empty and nothing waits for a
\* key or a signature; a sign with a valid message and a call of a method
\* that needs the key, made by an authenticated caller who finds the salt
\* absent, fail SaltNotInitialized with no provider call and no write; and
\* every derivation path an invocation has built holds a stored salt.
C21_NoSaltNoDerivation ==
    /\ ~SaltPresent =>
          /\ publicKeyCache = EmptyMap
          /\ \A inv \in Suspended : inv.wait = "raw_rand"
    /\ (/\ last.op \in SignOps \cup KeyOps
        /\ last.caller # AnonymousPrincipal
        /\ ~last.saltAtStart
        /\ last.op \in SignOps => validateMessage(last.message) = "") =>
          /\ last.kind = "err" /\ last.error = "SaltNotInitialized"
          /\ last.calls = <<>> /\ last.writes = {}
          /\ last.ret = NoRet
    /\ \A inv \in Suspended \cup {last} :
          inv.path # <<>> =>
             /\ inv.saltAtStart
             /\ inv.path[1][1].length >= SALT_MIN_BYTES
             /\ inv.path[1][2] = inv.caller

C21_Witness ==
    /\ last.op = "sign" /\ last.error = "SaltNotInitialized"
    /\ last.message.length = 1
    /\ ~SaltPresent
    /\ \E inv \in Suspended : inv.op = "initializeSalt"

\* C22: two getPublicKey invocations of one identity that are suspended on
\* the provider together are answered with the same key (the provider's key
\* of each one's derivation path), so both write and return equal values.
C22_ConcurrentMissesSameKey ==
    \A a, b \in Suspended :
        (/\ a.op = "getPublicKey" /\ b.op = "getPublicKey"
         /\ a.caller = b.caller
         /\ a.wait = "schnorr_public_key" /\ b.wait = "schnorr_public_key") =>
            SchnorrPublicKey(a.path[1]) = SchnorrPublicKey(b.path[1])

ListedFailures ==
    {"Unauthenticated", "NotOwner", "AlreadyInitialized", "SaltNotInitialized",
     "EmptyMessage", "MessageTooLarge", "InvalidNetworkPrefix", "ProviderError",
     "MalformedResponse"}

\* Whatever is suspended, a call that needs no provider can run as long as
\* the callers have calls left; no invocation asks the provider for the same
\* thing twice, and a suspended one waits for the request it made last; an
\* ended invocation has succeeded or failed with a listed failure.
C23_State ==
    /\ (last = NoLast /\ callsLeft # <<0>>) => ENABLED Call_isInitialized({AnonymousPrincipal})
    /\ \A inv \in Suspended \cup {last} :
          /\ \A i, j \in 1..Len(inv.calls) : inv.calls[i] = inv.calls[j] => i = j
          /\ inv.wait # "" => inv.calls[Len(inv.calls)] = inv.wait
    /\ \A inv \in Suspended : inv.wait \in {"raw_rand", "schnorr_public_key", "sign_with_schnorr"}
    /\ last # NoLast =>
          \/ last.kind = "ok"
          \/ last.kind = "err" /\ last.error \in ListedFailures

\* A suspended invocation leaves the suspended ones only in a step that hands
\* it the provider's reply: it ends, or goes on to its next request.
C23_Step ==
    \A inv \in BagToSet(pending) :
        CopiesIn(inv, pending') < CopiesIn(inv, pending) =>
           LET IsInv(n) == /\ n.op = inv.op /\ n.caller = inv.caller
                           /\ n.message = inv.message /\ n.reply # <<>>
           IN \/ last' # NoLast /\ IsInv(last') /\ last'.calls = inv.calls
              \/ \E n \in BagToSet(pending') :
                    /\ IsInv(n) /\ Len(n.calls) = Len(inv.calls) + 1
                    /\ CopiesIn(n, pending') > CopiesIn(n, pending)

\* C23: an invocation suspended on the provider does not keep others from
\* starting and ending, makes each provider request once, stays suspended
\* until the provider's reply is handed to it, and, when every request is
\* answered in the end, every invocation ends, in success or in a listed
\* failure.
C23_SuspendAndEnd ==
    /\ []C23_State
    /\ [][C23_Step]_vars
    /\ (pending # EmptyBag) ~> (pending = EmptyBag)

C23_Witness ==
    /\ last.op = "isInitialized" /\ last.kind = "ok"
    /\ BagCardinality(pending) = MaxPending
    /\ \E inv \in Suspended : inv.op = "signWithPublicKey" /\ inv.wait = "schnorr_public_key"

\* C24: the public key and the signature of a signWithPublicKey or
\* signWithHex result are the provider's key and signature of one derivation
\* path, the caller's with one salt value.
C24_KeyMatchesSignature ==
    (last.op \in ComposedOps /\ last.kind = "ok") =>
        \E r \in 0..NumRand :
            LET derivationPath == DerivationPath(RandBytes(r), last.caller)
            IN /\ last.ret.signature = SchnorrSignature(last.message, derivationPath)
               /\ last.ret.public_key = SchnorrPublicKey(derivationPath)

\* The provider's keys and signatures of the derivation paths of identity p.
KeysOf(p) == {SchnorrPublicKey(DerivationPath(RandBytes(r), p)) : r \in 0..NumRand}
SignaturesOf(p, message) ==
    {SchnorrSignature(message, DerivationPath(RandBytes(r), p)) : r \in 0..NumRand}

\* A step that ends an invocation of identity p: it gives no other identity
\* a cache entry or a new value of one; a key it returns is a key of a path
\* of p and a signature it returns a signature under a path of p; and when it
\* is a key or signing method it leaves the salt and every other identity's
\* cache entry as they were.
EndsIsolated(p) ==
    LET others == AuthenticatedPrincipals \ {p}
        EntryOf(cache, q) == Get(cache, toText(q))
    IN /\ \A q \in others :
             EntryOf(publicKeyCache', q) \in {<<>>, EntryOf(publicKeyCache, q)}
       /\ (last'.kind = "ok" /\ last'.ret.public_key # NoBytes) =>
             last'.ret.public_key \in KeysOf(p)
       /\ (last'.kind = "ok" /\ last'.ret.signature # NoBytes) =>
             last'.ret.signature \in SignaturesOf(p, last'.message)
       /\ last'.op \in KeyOps \cup SignOps =>
             /\ canisterSalt' = canisterSalt
             /\ canisterOwner' = canisterOwner
             /\ \A q \in others : EntryOf(publicKeyCache', q) = EntryOf(publicKeyCache, q)

\* C25: only an invocation of identity I gives I's cache entry a value, every
\* key and signature handed to I belongs to a derivation path of I, and the
\* key and signing calls of other identities change nothing I's results are
\* computed from (the salt and I's cache entry); a step that only suspends an
\* invocation changes no map at all.
C25_IdentityIsolation ==
    [][/\ last' = last => Store' = Store
       /\ (last' # last /\ last' # NoLast) => EndsIsolated(last'.caller)]_vars

C25_Witness ==
    /\ last.op = "getPublicKey" /\ last.kind = "ok" /\ last.writes = {"cache"}
    /\ last.caller # Deployer
    /\ \A q \in AuthenticatedPrincipals : toText(q) \in DOMAIN publicKeyCache
    /\ \E inv \in Suspended : inv.caller # last.caller /\ inv.op \in SignOps

\* C26: a sign invocation, suspended or ended, in success or in failure, has
\* changed none of the three maps; an invocation changes the cache only at
\* its end, and then it is a key method that was handed a 32-byte key by the
\* provider, or a clearPublicKeyCache that emptied the cache.
C26_SignWritesNothing ==
    /\ \A inv \in Suspended \cup {last} : inv.op = "sign" => inv.writes = {}
    /\ \A inv \in Suspended : "cache" \notin inv.writes
    /\ "cache" \in last.writes =>
          \/ /\ last.op \in KeyOps
             /\ LastReplyTo = "schnorr_public_key"
             /\ IsByteArrayOf(last.reply[1], 32)
             /\ Get(publicKeyCache, toText(last.caller)) = <<last.reply[1].bytes>>
          \/ /\ last.op = "clearPublicKeyCache"
             /\ publicKeyCache = EmptyMap

C26_Witness ==
    /\ last.op = "sign" /\ last.kind = "ok"
    /\ publicKeyCache = EmptyMap
    /\ \E inv \in Suspended : inv.op = "sign" /\ inv.caller = last.caller

====
